---- MODULE Spec2Model ----
(***************************************************************************)
(* KRISHNA document indexing and retrieval engine: the FAISS-backed        *)
(* VectorStore (backend/app/core/vector_store.py), its two-file snapshot,  *)
(* the lazily loaded EmbeddingEngine (backend/app/core/embeddings.py) and  *)
(* the PlannerAgent on top of search (backend/app/agents/planner_agent.py).*)
(*                                                                         *)
(* Spec        one caller at a time: the application's coroutines run the  *)
(*             store's synchronous methods to completion on one event loop.*)
(* SpecThreads the same methods called from two threads that share the     *)
(*             singletons; a thread switch may fall between any two steps. *)
(***************************************************************************)
EXTENDS Integers, Sequences, FiniteSets, TLC

\* ------------------------------------------------------------------ bounds
\* add_documents is called only while its chunks fit into MaxRows rows and
\* MaxRows records.
MaxRows == 2
\* Longest text given to chunk_text, in characters.
MaxTextLen == 6
\* Largest maximum given to chunk_text; overlap < target < maximum.
MaxMaximum == 5
\* Longest chunks list passed to one add_documents call.
MaxChunks == MaxRows
\* Largest top_k passed to search: one more than the index can hold.
MaxTopK == MaxRows + 1

\* --------------------------------------------------------------- constants
\* _EMBEDDING_DIM
EMBEDDING_DIM == 384

Threads == {1, 2}
MainThread == {1}
Texts == {"a", "b"}
\* A query is the text of a chunk or a text that no chunk holds.
Queries == Texts \cup {"c", "d"}

\* A metadata dict, as its set of (key, value) items.
EmptyMeta == {}
DocMeta == {<<"chunk_index", 0>>}

\* ------------------------------------------------------------ pure helpers
Min(a, b) == IF a <= b THEN a ELSE b

SeqsUpTo(S, n) == UNION {[1..k -> S] : k \in 0..n}

\* The chunks argument: any list of texts, the empty list included.
ChunkLists == SeqsUpTo(Texts, MaxChunks)

\* The metadatas argument: None, or a list of dicts of any length up to one
\* more than the longest chunks list (same length, shorter, longer).
MetaArgs ==
  {[given |-> FALSE, list |-> <<>>]}
    \cup {[given |-> TRUE, list |-> [i \in 1..k |-> DocMeta]] : k \in 0..(MaxChunks + 1)}

\* EmbeddingEngine.generate_embeddings on one text: a unit vector of the
\* engine's dimension, identified by the text it encodes.
Embed(t) == [d |-> EMBEDDING_DIM, of |-> t]

\* Inner product of two unit vectors, in units of 1/100000: 1.0 for a text
\* with itself, 0.25004 between the two chunk texts, and for the queries
\* that are no chunk 0.15 ("c") and 0.15004 ("d") against "a" and 0.14996
\* against "b".
InnerProduct(u, v) ==
  LET pair == {u.of, v.of} IN
    IF Cardinality(pair) = 1 THEN 100000
    ELSE IF pair = {"a", "b"} THEN 25004
    ELSE IF pair = {"a", "c"} THEN 15000
    ELSE IF pair = {"a", "d"} THEN 15004
    ELSE 14996

\* faiss.IndexFlatIP(dim)
IndexFlatIP(dim) == [d |-> dim, rows |-> <<>>]

\* zip(chunks, metas): pairs up to the shorter of the two.
Zip(xs, ys) == [i \in 1..Min(Len(xs), Len(ys)) |-> <<xs[i], ys[i]>>]

\* metas = metadatas or [{} for _ in chunks]
MetasOrDefault(chunks, metadatas) ==
  IF metadatas.given /\ metadatas.list # <<>>
    THEN metadatas.list
    ELSE [i \in 1..Len(chunks) |-> EmptyMeta]

\* ChunkRecord(chunk_id, text, metadata)
ChunkRecord(id, text, meta) == [chunk_id |-> id, text |-> text, metadata |-> meta]

\* ChunkRecord.to_dict
ToDict(r) == [chunk_id |-> r.chunk_id, text |-> r.text, metadata |-> r.metadata]

FromDictNoMetadata(dct) ==
  [chunk_id |-> dct.chunk_id, text |-> dct.text, metadata |-> EmptyMeta]

\* ChunkRecord.from_dict
FromDict(dct) ==
  [chunk_id |-> dct.chunk_id,
   text |-> dct.text,
   metadata |-> IF "metadata" \in DOMAIN dct THEN dct.metadata ELSE EmptyMeta]

\* ---------------------------------------------------------------- snapshot
\* index.bin: absent, unreadable (a partial write), or a written index.
NoIndexFile == [st |-> "absent", d |-> 0, rows |-> <<>>]
CorruptIndexFile == [st |-> "corrupt", d |-> 0, rows |-> <<>>]
IndexFile(index) == [st |-> "ok", d |-> index.d, rows |-> index.rows]

\* records.json: absent, truncated (json.loads raises), holding a record
\* without its "text" key (from_dict raises), or a written document.
NoRecordsFile == [st |-> "absent", next_id |-> 0, records |-> <<>>]
TruncatedRecordsFile == [st |-> "truncated", next_id |-> 0, records |-> <<>>]
BadRecordsFile(next_id) == [st |-> "bad_record", next_id |-> next_id, records |-> <<>>]
RecordsFile(next_id, records) ==
  [st |-> "ok", next_id |-> next_id, records |-> [i \in 1..Len(records) |-> ToDict(records[i])]]

\* ------------------------------------------------------------------- state
VARIABLES
  proc,        \* "down" | "up": the server process
  index,       \* VectorStore._index: [d, rows]
  records,     \* VectorStore._records
  next_id,     \* VectorStore._next_id
  instance,    \* EmbeddingEngine._instance: 0 (None) or a position in engines
  engines,     \* every EmbeddingEngine created by this process: its _model
  modelLoads,  \* SentenceTransformer(...) calls that returned, this process
  diskIndex,   \* index.bin
  diskRecords, \* records.json
  log,         \* the last line vector_store's logger wrote about persistence
  pc,          \* per thread: where its call stands
  loc,         \* per thread: the call's arguments and locals
  result,      \* per thread: what its last finished call gave the caller
  ck,          \* one chunk_text call: its arguments and locals
  llm          \* one _post_with_retries call: its locals and the responses so far

vars == <<proc, index, records, next_id, instance, engines, modelLoads,
          diskIndex, diskRecords, log, pc, loc, result, ck, llm>>

mem == <<index, records, next_id>>
engineVars == <<instance, engines, modelLoads>>
disk == <<diskIndex, diskRecords>>

NoLoc ==
  [op |-> "none", chunks |-> <<>>, metadatas |-> [given |-> FALSE, list |-> <<>>],
   metas |-> <<>>, vectors |-> <<>>, ids |-> <<>>,
   i |-> 0, engine |-> 0, query |-> "", top_k |-> 0, hits |-> <<>>,
   threshold |-> 0, raw |-> <<>>]

NoResult == [kind |-> "none", exc |-> "", val |-> <<>>]
Returned(v) == [kind |-> "ok", exc |-> "", val |-> v]
Raised(e) == [kind |-> "raised", exc |-> e, val |-> <<>>]

\* -------------------------------------------------------------- persistence
\* VectorStore.__init__ before _load: an empty index of the engine's dimension.
NewStore(dim) ==
  [dim |-> dim, index |-> IndexFlatIP(dim), records |-> <<>>, next_id |-> 0, log |-> "none"]

LoadFallbackKeepsIndex(self) ==
  [self EXCEPT !.records = <<>>, !.next_id = 0, !.log = "load_failed"]

\* The except branch of _load: back to an empty index, no records, counter 0.
LoadFallback(self) ==
  [self EXCEPT !.index = IndexFlatIP(self.dim), !.records = <<>>, !.next_id = 0,
               !.log = "load_failed"]

\* self._records = [ChunkRecord.from_dict(r) for r in data.get("records", [])]
LoadRecords(self, doc) ==
  [self EXCEPT !.records = [i \in 1..Len(doc.records) |-> FromDict(doc.records[i])],
               !.log = "loaded"]

LoadForgetsNextId(self, indexFile, recordsFile) ==
  IF indexFile.st = "absent" \/ recordsFile.st = "absent"
    THEN [self EXCEPT !.log = "fresh"]
  ELSE IF indexFile.st # "ok"
    THEN LoadFallback(self)
  ELSE LET s1 == [self EXCEPT !.index = [d |-> indexFile.d, rows |-> indexFile.rows]] IN
    IF recordsFile.st # "ok"
      THEN LoadFallback(s1)
      ELSE LoadRecords(s1, recordsFile)

\* VectorStore._load, statement by statement: read_index replaces _index
\* before records.json is read, next_id is assigned before the records are
\* rebuilt, and any exception on the way runs the except branch.
Load(self, indexFile, recordsFile) ==
  IF indexFile.st = "absent" \/ recordsFile.st = "absent"
    THEN [self EXCEPT !.log = "fresh"]
  ELSE IF indexFile.st # "ok"
    THEN LoadFallback(self)
  ELSE LET s1 == [self EXCEPT !.index = [d |-> indexFile.d, rows |-> indexFile.rows]] IN
    IF recordsFile.st = "truncated"
      THEN LoadFallback(s1)
    ELSE LET s2 == [s1 EXCEPT !.next_id = recordsFile.next_id] IN
      IF recordsFile.st = "bad_record"
        THEN LoadFallback(s2)
        ELSE LoadRecords(s2, recordsFile)

\* VectorStore(): __init__ followed by _load.
NewVectorStore(indexFile, recordsFile) ==
  Load(NewStore(EMBEDDING_DIM), indexFile, recordsFile)

\* ------------------------------------------------------------------ search
\* Row i ranks before row j: higher inner product, ties to the lower row.
RanksBefore(rows, qv, i, j) ==
  \/ InnerProduct(qv, rows[i]) > InnerProduct(qv, rows[j])
  \/ InnerProduct(qv, rows[i]) = InnerProduct(qv, rows[j]) /\ i < j

\* self._index.search(query_vec, k): the k best rows, best first, each as
\* its position and its inner product with the query.
IndexSearch(rows, qv, k) ==
  [r \in 1..k |->
     LET i == CHOOSE i \in 1..Len(rows) :
                Cardinality({j \in 1..Len(rows) : RanksBefore(rows, qv, j, i)}) = r - 1
     IN [idx |-> i, score |-> InnerProduct(qv, rows[i])]]

\* The result loop of search: each hit paired with the record at its row
\* position; self._records[int(idx)] raises IndexError past the last record.
CollectResults(recs, hits) ==
  IF \E r \in 1..Len(hits) : hits[r].idx > Len(recs)
    THEN Raised("IndexError")
    ELSE Returned([r \in 1..Len(hits) |->
                     [text |-> recs[hits[r].idx].text,
                      score |-> hits[r].score,
                      metadata |-> recs[hits[r].idx].metadata]])

\* VectorStore.search run to completion on a given store state, with the
\* embedding model available.
Search(idx, recs, query, top_k) ==
  IF Len(idx.rows) = 0
    THEN Returned(<<>>)
    ELSE CollectResults(recs, IndexSearch(idx.rows, Embed(query), Min(top_k, Len(idx.rows))))

\* ----------------------------------------------------------------- planner
\* _MIN_RELEVANCE_SCORE = 0.15, in units of 1/100000
MIN_RELEVANCE_SCORE == 15000

\* plan() has no threshold parameter: the call is made without one, or with
\* the keyword threshold=0.9.
NoThreshold == 0
ThresholdArgs == {NoThreshold, 90000}

RelevantStrictlyAbove(r) == r.score > MIN_RELEVANCE_SCORE

\* if r["score"] >= _MIN_RELEVANCE_SCORE
Relevant(r) == r.score >= MIN_RELEVANCE_SCORE

\* RetrievedChunk(text=r["text"], score=r["score"], metadata=r.get("metadata", {}))
RetrievedChunk(r) == [text |-> r.text, score |-> r.score, metadata |-> r.metadata]

\* The list comprehension of plan: the relevant results, in search order.
RECURSIVE PlanChunks(_)
PlanChunks(raw) ==
  IF raw = <<>> THEN <<>>
  ELSE IF Relevant(Head(raw))
    THEN <<RetrievedChunk(Head(raw))>> \o PlanChunks(Tail(raw))
    ELSE PlanChunks(Tail(raw))

\* PlannerResult(chunks, strategy): the strategy string
\* "dense_retrieval(top_k=.., threshold=.., returned=..)" as its three numbers.
PlannerResult(raw, top_k) ==
  LET chunks == PlanChunks(raw) IN
    [chunks |-> chunks,
     strategy |-> [top_k |-> top_k, threshold |-> MIN_RELEVANCE_SCORE,
                   returned |-> Len(chunks)]]

Round4Identity(score) == score

\* round(score, 4): the nearest multiple of 1/10000, a tie going to the
\* even one.
Round4(score) ==
  LET q == score \div 10
      r == score % 10
  IN IF r > 5 \/ (r = 5 /\ q % 2 = 1) THEN 10 * (q + 1) ELSE 10 * q

\* PlannerResult.source_list
SourceList(chunks) ==
  [i \in 1..Len(chunks) |->
     [chunk_index |-> i - 1, text_preview |-> chunks[i].text,
      score |-> Round4(chunks[i].score), metadata |-> chunks[i].metadata]]

\* ----------------------------------------------------------------- chunker
\* A text is the sequence of its characters: two letters and the newline,
\* which is the whitespace str.strip() removes and, doubled, the separator
\* of paragraphs.
Chars == {"a", "b", "\n"}
Whitespace == {"\n"}
ParagraphBreak == <<"\n", "\n">>

Max(a, b) == IF a >= b THEN a ELSE b

\* s[lo:hi] for 0 <= lo, the end clipped to the length as Python clips it.
Slice(s, lo, hi) == SubSeq(s, lo + 1, Min(hi, Len(s)))

\* str.strip()
RECURSIVE LStrip(_)
LStrip(s) == IF s # <<>> /\ Head(s) \in Whitespace THEN LStrip(Tail(s)) ELSE s
RECURSIVE RStrip(_)
RStrip(s) ==
  IF s # <<>> /\ s[Len(s)] \in Whitespace THEN RStrip(SubSeq(s, 1, Len(s) - 1)) ELSE s
Strip(s) == RStrip(LStrip(s))

\* text.split("\n\n"): cut at each separator, found from the left.
RECURSIVE Split(_)
Split(s) ==
  LET at == {i \in 1..(Len(s) - 1) : SubSeq(s, i, i + 1) = ParagraphBreak} IN
    IF at = {} THEN <<s>>
    ELSE LET i == CHOOSE i \in at : \A j \in at : i <= j IN
           <<SubSeq(s, 1, i - 1)>> \o Split(SubSeq(s, i + 2, Len(s)))

\* [p.strip() for p in text.split("\n\n") if p.strip()]
RECURSIVE StripNonEmpty(_)
StripNonEmpty(ps) ==
  IF ps = <<>> THEN <<>>
  ELSE IF Strip(Head(ps)) # <<>>
    THEN <<Strip(Head(ps))>> \o StripNonEmpty(Tail(ps))
    ELSE StripNonEmpty(Tail(ps))
Paragraphs(text) == StripNonEmpty(Split(text))

MergesWithoutSeparator(current, para, target) == Len(current) + Len(para) <= target

\* len(current) + len(para) + 2 <= target
Merges(current, para, target) == Len(current) + Len(para) + 2 <= target

\* f"{a}\n\n{b}".strip()
Joined(a, b) == Strip(a \o ParagraphBreak \o b)

\* [para[i : i + maximum] for i in range(0, len(para), maximum - overlap)]
RECURSIVE HardSplitFrom(_, _, _, _)
HardSplitFrom(para, i, maximum, overlap) ==
  IF i >= Len(para) THEN <<>>
  ELSE <<Slice(para, i, i + maximum)>>
         \o HardSplitFrom(para, i + (maximum - overlap), maximum, overlap)
HardSplit(para, maximum, overlap) == HardSplitFrom(para, 0, maximum, overlap)

\* chunk[-overlap:]: the last overlap characters, the whole chunk when it
\* is shorter, and, -0 being 0, the whole chunk when overlap is 0.
TailOf(chunk, overlap) ==
  IF overlap = 0 THEN chunk ELSE Slice(chunk, Max(Len(chunk) - overlap, 0), Len(chunk))

\* The arguments of a chunk_text call: overlap < target < maximum.
ChunkParams ==
  {p \in [overlap : 0..MaxMaximum, target : 0..MaxMaximum, maximum : 0..MaxMaximum] :
     p.overlap < p.target /\ p.target < p.maximum}

NoChunkCall ==
  [pc |-> "none", text |-> <<>>, overlap |-> 0, target |-> 0, maximum |-> 0,
   paragraphs |-> <<>>, k |-> 0, chunks |-> <<>>, current |-> <<>>]

\* ------------------------------------------------------------- LLM client
\* _MAX_RETRIES
MAX_RETRIES == 3

\* What one requests.post gives: a response with its status code and, for a
\* 200, its JSON body, or a requests.RequestException.
Responses ==
  {[kind |-> "http", status |-> 200, body |-> b] : b \in {"x", "y"}}
    \cup {[kind |-> "http", status |-> c, body |-> ""] :
            c \in {400, 429, 500, 501, 502, 503, 504}}
    \cup {[kind |-> "network", status |-> 0, body |-> ""]}

\* resp.status_code in (429, 500, 502, 503, 504)
Retryable(resp) == resp.status \in {429, 500, 502, 503, 504}

NoLLMCall ==
  [pc |-> "none", attempt |-> 0, responses |-> <<>>, last_exc |-> "None",
   result |-> NoResult]

\* ------------------------------------------------------------------- steps
\* The store, the engine and the files before the first process starts.
StoreInit ==
  /\ proc = "down"
  /\ index = IndexFlatIP(EMBEDDING_DIM)
  /\ records = <<>>
  /\ next_id = 0
  /\ instance = 0
  /\ engines = <<>>
  /\ modelLoads = 0
  /\ diskIndex = NoIndexFile
  /\ diskRecords = NoRecordsFile
  /\ log = "none"
  /\ pc = [t \in Threads |-> "idle"]
  /\ loc = [t \in Threads |-> NoLoc]
  /\ result = [t \in Threads |-> NoResult]

Init ==
  /\ StoreInit
  /\ ck = NoChunkCall
  /\ llm = NoLLMCall

\* Process start: VectorStore.get_instance() builds the store from the
\* snapshot; the engine singleton and its model do not exist yet.
Construct ==
  /\ proc = "down"
  /\ LET self == NewVectorStore(diskIndex, diskRecords) IN
       /\ index' = self.index
       /\ records' = self.records
       /\ next_id' = self.next_id
       /\ log' = self.log
  /\ proc' = "up"
  /\ UNCHANGED <<engineVars, disk, pc, loc, result>>
  /\ UNCHANGED <<ck, llm>>

\* The process stops at any point, between any two statements: everything
\* in memory is lost, the two files stay as they are.
Crash ==
  /\ proc = "up"
  /\ proc' = "down"
  /\ index' = IndexFlatIP(EMBEDDING_DIM)
  /\ records' = <<>>
  /\ next_id' = 0
  /\ instance' = 0
  /\ engines' = <<>>
  /\ modelLoads' = 0
  /\ log' = "none"
  /\ pc' = [t \in Threads |-> "idle"]
  /\ loc' = [t \in Threads |-> NoLoc]
  /\ result' = [t \in Threads |-> NoResult]
  /\ UNCHANGED disk
  /\ UNCHANGED <<ck, llm>>

\* records.json damaged while no process runs: cut short, or left as valid
\* JSON in which a record has lost its "text" key.
DamageRecordsFile ==
  /\ proc = "down"
  /\ diskRecords.st = "ok"
  /\ \/ diskRecords' = TruncatedRecordsFile
     \/ /\ Len(diskRecords.records) > 0
        /\ diskRecords' = BadRecordsFile(diskRecords.next_id)
  /\ UNCHANGED <<proc, mem, engineVars, diskIndex, log, pc, loc, result>>
  /\ UNCHANGED <<ck, llm>>

\* index.bin comes from an index of another dimension (written with another
\* embedding model), while no process runs.
ForeignIndexFile ==
  /\ proc = "down"
  /\ diskIndex.st = "ok"
  /\ diskIndex.d = EMBEDDING_DIM
  /\ diskIndex' = [diskIndex EXCEPT !.d = 2 * EMBEDDING_DIM]
  /\ UNCHANGED <<proc, mem, engineVars, diskRecords, log, pc, loc, result>>
  /\ UNCHANGED <<ck, llm>>

\* add_documents, lines 108-109: called; the empty list returns at once.
AddCallNoEmptyGuard(t, chunkLists, metaArgs) ==
  /\ proc = "up"
  /\ pc[t] = "idle"
  /\ \E chunks \in chunkLists, metadatas \in metaArgs :
       /\ Len(index.rows) + Len(chunks) <= MaxRows
       /\ Len(records) + Len(chunks) <= MaxRows
       /\ loc' = [loc EXCEPT ![t] = [NoLoc EXCEPT !.op = "add", !.chunks = chunks,
                                                   !.metadatas = metadatas]]
       /\ pc' = [pc EXCEPT ![t] = "get_instance"]
  /\ UNCHANGED <<proc, mem, engineVars, disk, log, result>>
  /\ UNCHANGED <<ck, llm>>

AddCallWith(t, chunkLists, metaArgs) ==
  /\ proc = "up"
  /\ pc[t] = "idle"
  /\ \E chunks \in chunkLists, metadatas \in metaArgs :
       /\ Len(index.rows) + Len(chunks) <= MaxRows
       /\ Len(records) + Len(chunks) <= MaxRows
       /\ loc' = [loc EXCEPT ![t] = [NoLoc EXCEPT !.op = "add", !.chunks = chunks,
                                                   !.metadatas = metadatas]]
       /\ IF chunks = <<>>
            THEN /\ pc' = [pc EXCEPT ![t] = "done"]
                 /\ result' = [result EXCEPT ![t] = Returned(<<>>)]
            ELSE /\ pc' = [pc EXCEPT ![t] = "get_instance"]
                 /\ UNCHANGED result
  /\ UNCHANGED <<proc, mem, engineVars, disk, log>>
  /\ UNCHANGED <<ck, llm>>

\* The one caller passes any chunks list and any metadatas argument.
AddCall(t) == AddCallWith(t, ChunkLists, MetaArgs)

\* A thread passes at most one chunk, without metadatas.
ThreadAddCall(t) == AddCallWith(t, SeqsUpTo(Texts, 1), {[given |-> FALSE, list |-> <<>>]})

\* search, lines 151-152: called; an index without rows returns [] at once.
SearchCallWith(t, queries, topKs) ==
  /\ proc = "up"
  /\ pc[t] = "idle"
  /\ \E query \in queries, top_k \in topKs :
       loc' = [loc EXCEPT ![t] = [NoLoc EXCEPT !.op = "search", !.query = query,
                                                !.top_k = top_k]]
  /\ IF Len(index.rows) = 0
       THEN /\ pc' = [pc EXCEPT ![t] = "done"]
            /\ result' = [result EXCEPT ![t] = Returned(<<>>)]
       ELSE /\ pc' = [pc EXCEPT ![t] = "get_instance"]
            /\ UNCHANGED result
  /\ UNCHANGED <<proc, mem, engineVars, disk, log>>
  /\ UNCHANGED <<ck, llm>>

\* The one caller asks for any number of results up to MaxTopK.
SearchCall(t) == SearchCallWith(t, Queries, 1..MaxTopK)

\* A thread asks for more results than the index can hold.
ThreadSearchCall(t) == SearchCallWith(t, Texts, {MaxTopK})

PlanCallEmbedsFirst(t, thresholds) ==
  /\ proc = "up"
  /\ pc[t] = "idle"
  /\ \E query \in Queries, top_k \in 1..MaxTopK, threshold \in thresholds :
       /\ loc' = [loc EXCEPT ![t] = [NoLoc EXCEPT !.op = "plan", !.query = query,
                                                   !.top_k = top_k,
                                                   !.threshold = threshold]]
       /\ IF threshold # NoThreshold
            THEN /\ pc' = [pc EXCEPT ![t] = "done"]
                 /\ result' = [result EXCEPT ![t] = Raised("TypeError")]
            ELSE /\ pc' = [pc EXCEPT ![t] = "get_instance"]
                 /\ UNCHANGED result
  /\ UNCHANGED <<proc, mem, engineVars, disk, log>>
  /\ UNCHANGED <<ck, llm>>

\* PlannerAgent.plan called: a threshold keyword is a TypeError, plan taking
\* none; otherwise RetrievalService.search passes query and top_k on to
\* VectorStore.search, where an index without rows returns [] at once.
PlanCallWith(t, thresholds) ==
  /\ proc = "up"
  /\ pc[t] = "idle"
  /\ \E query \in Queries, top_k \in 1..MaxTopK, threshold \in thresholds :
       /\ loc' = [loc EXCEPT ![t] = [NoLoc EXCEPT !.op = "plan", !.query = query,
                                                   !.top_k = top_k,
                                                   !.threshold = threshold]]
       /\ IF threshold # NoThreshold
            THEN /\ pc' = [pc EXCEPT ![t] = "done"]
                 /\ result' = [result EXCEPT ![t] = Raised("TypeError")]
            ELSE /\ pc' = [pc EXCEPT ![t] =
                             IF Len(index.rows) = 0 THEN "plan_filter" ELSE "get_instance"]
                 /\ UNCHANGED result
  /\ UNCHANGED <<proc, mem, engineVars, disk, log>>
  /\ UNCHANGED <<ck, llm>>

\* The chat pipeline and any other caller of plan.
PlanCall(t) == PlanCallWith(t, ThresholdArgs)

\* EmbeddingEngine.get_instance, line 37: the test of cls._instance.
GetInstance(t) ==
  /\ pc[t] = "get_instance"
  /\ IF instance = 0
       THEN /\ pc' = [pc EXCEPT ![t] = "new_engine"]
            /\ UNCHANGED loc
       ELSE /\ pc' = [pc EXCEPT ![t] = "load_model"]
            /\ loc' = [loc EXCEPT ![t].engine = instance]
  /\ UNCHANGED <<proc, mem, engineVars, disk, log, result>>
  /\ UNCHANGED <<ck, llm>>

\* EmbeddingEngine.get_instance, lines 38-39: a new engine becomes the
\* singleton, whatever the singleton was by now.
NewEngine(t) ==
  /\ pc[t] = "new_engine"
  /\ engines' = Append(engines, "None")
  /\ instance' = Len(engines) + 1
  /\ loc' = [loc EXCEPT ![t].engine = Len(engines) + 1]
  /\ pc' = [pc EXCEPT ![t] = "load_model"]
  /\ UNCHANGED <<proc, mem, modelLoads, disk, log, result>>
  /\ UNCHANGED <<ck, llm>>

\* EmbeddingEngine._load_model, line 44: the test of self._model.
LoadModel(t) ==
  /\ pc[t] = "load_model"
  /\ pc' = [pc EXCEPT ![t] = IF engines[loc[t].engine] = "None" THEN "new_model" ELSE "encode"]
  /\ UNCHANGED <<proc, mem, engineVars, disk, log, loc, result>>
  /\ UNCHANGED <<ck, llm>>

NewModelSwallowsFailure(t) ==
  /\ pc[t] = "new_model"
  /\ \/ /\ engines' = [engines EXCEPT ![loc[t].engine] = "model"]
        /\ modelLoads' = modelLoads + 1
     \/ UNCHANGED <<engines, modelLoads>>
  /\ pc' = [pc EXCEPT ![t] = "encode"]
  /\ UNCHANGED <<proc, mem, instance, disk, log, loc, result>>
  /\ UNCHANGED <<ck, llm>>

NewModelFailureAfterAppend(t) ==
  /\ pc[t] = "new_model"
  /\ \/ /\ engines' = [engines EXCEPT ![loc[t].engine] = "model"]
        /\ modelLoads' = modelLoads + 1
        /\ pc' = [pc EXCEPT ![t] = "encode"]
        /\ UNCHANGED <<result, records>>
     \/ /\ pc' = [pc EXCEPT ![t] = "done"]
        /\ result' = [result EXCEPT ![t] = Raised("ModelLoadError")]
        /\ records' = IF loc[t].op = "add"
                        THEN Append(records, ChunkRecord(next_id, loc[t].chunks[1], EmptyMeta))
                        ELSE records
        /\ UNCHANGED <<engines, modelLoads>>
  /\ UNCHANGED <<proc, index, next_id, instance, disk, log, loc>>
  /\ UNCHANGED <<ck, llm>>

\* EmbeddingEngine._load_model, lines 45-48: SentenceTransformer(...) returns
\* a model, which is stored, or raises, which ends the call.
NewModel(t) ==
  /\ pc[t] = "new_model"
  /\ \/ /\ engines' = [engines EXCEPT ![loc[t].engine] = "model"]
        /\ modelLoads' = modelLoads + 1
        /\ pc' = [pc EXCEPT ![t] = "encode"]
        /\ UNCHANGED result
     \/ /\ pc' = [pc EXCEPT ![t] = "done"]
        /\ result' = [result EXCEPT ![t] = Raised("ModelLoadError")]
        /\ UNCHANGED <<engines, modelLoads>>
  /\ UNCHANGED <<proc, mem, instance, disk, log, loc>>
  /\ UNCHANGED <<ck, llm>>

\* generate_embeddings, lines 72-78, and for add_documents line 114-115.
Encode(t) ==
  /\ pc[t] = "encode"
  /\ IF loc[t].op = "add"
       THEN /\ loc' = [loc EXCEPT
                         ![t].vectors = [i \in 1..Len(loc[t].chunks) |-> Embed(loc[t].chunks[i])],
                         ![t].metas = MetasOrDefault(loc[t].chunks, loc[t].metadatas),
                         ![t].i = 1]
            /\ pc' = [pc EXCEPT ![t] = "append_record"]
       ELSE /\ pc' = [pc EXCEPT ![t] = "index_search"]
            /\ UNCHANGED loc
  /\ UNCHANGED <<proc, mem, engineVars, disk, log, result>>
  /\ UNCHANGED <<ck, llm>>

AppendRecordAtFront(t) ==
  /\ pc[t] = "append_record"
  /\ LET pair == Zip(loc[t].chunks, loc[t].metas)[loc[t].i] IN
       records' = <<ChunkRecord(next_id, pair[1], pair[2])>> \o records
  /\ pc' = [pc EXCEPT ![t] = "bump_id"]
  /\ UNCHANGED <<proc, index, next_id, engineVars, disk, log, loc, result>>
  /\ UNCHANGED <<ck, llm>>

\* add_documents, lines 117-123: the next (text, meta) pair of
\* zip(chunks, metas) becomes a record carrying the counter's value.
AppendRecord(t) ==
  /\ pc[t] = "append_record"
  /\ LET pair == Zip(loc[t].chunks, loc[t].metas)[loc[t].i] IN
       records' = Append(records, ChunkRecord(next_id, pair[1], pair[2]))
  /\ pc' = [pc EXCEPT ![t] = "bump_id"]
  /\ UNCHANGED <<proc, index, next_id, engineVars, disk, log, loc, result>>
  /\ UNCHANGED <<ck, llm>>

\* add_documents, lines 124-125: the id is noted and the counter bumped;
\* the loop goes on while zip(chunks, metas) has pairs left.
BumpId(t) ==
  /\ pc[t] = "bump_id"
  /\ loc' = [loc EXCEPT ![t].ids = Append(@, next_id), ![t].i = @ + 1]
  /\ next_id' = next_id + 1
  /\ pc' = [pc EXCEPT ![t] =
              IF loc[t].i < Len(Zip(loc[t].chunks, loc[t].metas))
                THEN "append_record" ELSE "index_add"]
  /\ UNCHANGED <<proc, index, records, engineVars, disk, log, result>>
  /\ UNCHANGED <<ck, llm>>

\* add_documents, line 127: every vector of the call becomes a row; faiss
\* refuses vectors that have not the index's dimension.
IndexAdd(t) ==
  /\ pc[t] = "index_add"
  /\ IF \A i \in 1..Len(loc[t].vectors) : loc[t].vectors[i].d = index.d
       THEN /\ index' = [index EXCEPT !.rows = @ \o loc[t].vectors]
            /\ pc' = [pc EXCEPT ![t] = "write_index"]
            /\ UNCHANGED result
       ELSE /\ result' = [result EXCEPT ![t] = Raised("AssertionError")]
            /\ pc' = [pc EXCEPT ![t] = "done"]
            /\ UNCHANGED index
  /\ UNCHANGED <<proc, records, next_id, engineVars, disk, log, loc>>
  /\ UNCHANGED <<ck, llm>>

\* _save, lines 183-186: mkdir and faiss.write_index. A failure leaves
\* index.bin as it was or partly written, and goes to the except branch.
WriteIndex(t) ==
  /\ pc[t] = "write_index"
  /\ \/ /\ diskIndex' = IndexFile(index)
        /\ pc' = [pc EXCEPT ![t] = "write_records"]
        /\ UNCHANGED log
     \/ /\ diskIndex' \in {diskIndex, CorruptIndexFile}
        /\ log' = "save_failed"
        /\ pc' = [pc EXCEPT ![t] = "return_ids"]
  /\ UNCHANGED <<proc, mem, engineVars, diskRecords, loc, result>>
  /\ UNCHANGED <<ck, llm>>

\* _save, lines 189-203: records.json is rewritten from the records and the
\* counter as they are now. A failure leaves the file as it was or cut
\* short, and goes to the except branch.
WriteRecords(t) ==
  /\ pc[t] = "write_records"
  /\ \/ /\ diskRecords' = RecordsFile(next_id, records)
        /\ log' = "saved"
     \/ /\ diskRecords' \in {diskRecords, TruncatedRecordsFile}
        /\ log' = "save_failed"
  /\ pc' = [pc EXCEPT ![t] = "return_ids"]
  /\ UNCHANGED <<proc, mem, engineVars, diskIndex, loc, result>>
  /\ UNCHANGED <<ck, llm>>

\* add_documents, line 135.
ReturnIds(t) ==
  /\ pc[t] = "return_ids"
  /\ result' = [result EXCEPT ![t] = Returned(loc[t].ids)]
  /\ pc' = [pc EXCEPT ![t] = "done"]
  /\ UNCHANGED <<proc, mem, engineVars, disk, log, loc>>
  /\ UNCHANGED <<ck, llm>>

\* search, lines 157-158: k and the k best rows of the index as it is now;
\* faiss refuses a query vector that has not the index's dimension.
IndexSearchStep(t) ==
  /\ pc[t] = "index_search"
  /\ IF Embed(loc[t].query).d = index.d
       THEN /\ loc' = [loc EXCEPT ![t].hits =
                         IndexSearch(index.rows, Embed(loc[t].query),
                                     Min(loc[t].top_k, Len(index.rows)))]
            /\ pc' = [pc EXCEPT ![t] = "collect"]
            /\ UNCHANGED result
       ELSE /\ result' = [result EXCEPT ![t] = Raised("AssertionError")]
            /\ pc' = [pc EXCEPT ![t] = "done"]
            /\ UNCHANGED loc
  /\ UNCHANGED <<proc, mem, engineVars, disk, log>>
  /\ UNCHANGED <<ck, llm>>

CollectAndFlush(t) ==
  /\ pc[t] = "collect"
  /\ LET out == CollectResults(records, loc[t].hits) IN
       IF loc[t].op = "plan" /\ out.kind = "ok"
         THEN /\ loc' = [loc EXCEPT ![t].raw = out.val]
              /\ pc' = [pc EXCEPT ![t] = "plan_filter"]
              /\ UNCHANGED result
         ELSE /\ result' = [result EXCEPT ![t] = out]
              /\ pc' = [pc EXCEPT ![t] = "done"]
              /\ UNCHANGED loc
  /\ diskRecords' = RecordsFile(next_id, records)
  /\ UNCHANGED <<proc, mem, engineVars, diskIndex, log>>
  /\ UNCHANGED <<ck, llm>>

\* search, lines 160-171: the hits are paired with the records as they are
\* now. The outcome goes to the caller of search: the route, or plan, which
\* has no handler for an exception.
Collect(t) ==
  /\ pc[t] = "collect"
  /\ LET out == CollectResults(records, loc[t].hits) IN
       IF loc[t].op = "plan" /\ out.kind = "ok"
         THEN /\ loc' = [loc EXCEPT ![t].raw = out.val]
              /\ pc' = [pc EXCEPT ![t] = "plan_filter"]
              /\ UNCHANGED result
         ELSE /\ result' = [result EXCEPT ![t] = out]
              /\ pc' = [pc EXCEPT ![t] = "done"]
              /\ UNCHANGED loc
  /\ UNCHANGED <<proc, mem, engineVars, disk, log>>
  /\ UNCHANGED <<ck, llm>>

\* plan, lines 109-136: the results at or above the relevance threshold
\* become the chunks of the PlannerResult.
PlanFilter(t) ==
  /\ pc[t] = "plan_filter"
  /\ result' = [result EXCEPT ![t] = Returned(PlannerResult(loc[t].raw, loc[t].top_k))]
  /\ pc' = [pc EXCEPT ![t] = "done"]
  /\ UNCHANGED <<proc, mem, engineVars, disk, log, loc>>
  /\ UNCHANGED <<ck, llm>>

\* The caller has taken the call's return value or exception.
Finish(t) ==
  /\ pc[t] = "done"
  /\ pc' = [pc EXCEPT ![t] = "idle"]
  /\ loc' = [loc EXCEPT ![t] = NoLoc]
  /\ result' = [result EXCEPT ![t] = NoResult]
  /\ UNCHANGED <<proc, mem, engineVars, disk, log>>
  /\ UNCHANGED <<ck, llm>>

\* The steps of a call once it is made.
Body(t) ==
  \/ GetInstance(t) \/ NewEngine(t) \/ LoadModel(t) \/ NewModel(t) \/ Encode(t)
  \/ AppendRecord(t) \/ BumpId(t) \/ IndexAdd(t)
  \/ WriteIndex(t) \/ WriteRecords(t) \/ ReturnIds(t)
  \/ IndexSearchStep(t) \/ Collect(t)
  \/ Finish(t)

\* ----------------------------------------------------------- chunker steps
\* chunk_text is called with any text and any overlap < target < maximum.
InitChunk ==
  /\ StoreInit
  /\ llm = NoLLMCall
  /\ \E text \in SeqsUpTo(Chars, MaxTextLen), p \in ChunkParams :
       ck = [NoChunkCall EXCEPT !.pc = "split", !.text = text, !.overlap = p.overlap,
                                !.target = p.target, !.maximum = p.maximum]

\* chunk_text, lines 85-90: the paragraphs; without any, [] is returned.
ChunkSplit ==
  /\ ck.pc = "split"
  /\ LET paragraphs == Paragraphs(ck.text) IN
       ck' = [ck EXCEPT !.paragraphs = paragraphs,
                        !.k = 1,
                        !.pc = IF paragraphs = <<>> THEN "done" ELSE "loop"]
  /\ UNCHANGED <<proc, mem, engineVars, disk, log, pc, loc, result, llm>>

\* chunk_text, lines 92-111: one paragraph is merged into the current
\* chunk, or the current chunk is flushed and the paragraph is hard-split or
\* starts the next chunk behind the tail of the last chunk.
ChunkPara ==
  /\ ck.pc = "loop"
  /\ LET para == ck.paragraphs[ck.k]
         flushed == IF ck.current # <<>> THEN Append(ck.chunks, ck.current) ELSE ck.chunks
         after == IF ck.k < Len(ck.paragraphs) THEN "loop" ELSE "flush"
     IN IF Merges(ck.current, para, ck.target)
          THEN ck' = [ck EXCEPT !.current = Joined(ck.current, para),
                                !.k = @ + 1, !.pc = after]
        ELSE IF Len(para) > ck.maximum
          THEN ck' = [ck EXCEPT !.chunks = flushed \o HardSplit(para, ck.maximum, ck.overlap),
                                !.current = <<>>,
                                !.k = @ + 1, !.pc = after]
        ELSE ck' = [ck EXCEPT !.chunks = flushed,
                              !.current =
                                IF flushed # <<>>
                                  THEN Joined(TailOf(flushed[Len(flushed)], ck.overlap), para)
                                  ELSE para,
                              !.k = @ + 1, !.pc = after]
  /\ UNCHANGED <<proc, mem, engineVars, disk, log, pc, loc, result, llm>>

ChunkReturnNoFinalFlush ==
  /\ ck.pc = "flush"
  /\ ck' = [ck EXCEPT !.pc = "done"]
  /\ UNCHANGED <<proc, mem, engineVars, disk, log, pc, loc, result, llm>>

\* chunk_text, lines 113-116: the current chunk, if any, is the last one.
ChunkReturn ==
  /\ ck.pc = "flush"
  /\ ck' = [ck EXCEPT !.chunks = IF ck.current # <<>> THEN Append(@, ck.current) ELSE @,
                      !.pc = "done"]
  /\ UNCHANGED <<proc, mem, engineVars, disk, log, pc, loc, result, llm>>

NextChunk == ChunkSplit \/ ChunkPara \/ ChunkReturn

SpecChunk == InitChunk /\ [][NextChunk]_vars

\* --------------------------------------------------------- LLM client steps
\* _post_with_retries is called: the loop starts with attempt 1.
InitLLM ==
  /\ StoreInit
  /\ ck = NoChunkCall
  /\ llm = [NoLLMCall EXCEPT !.pc = "post", !.attempt = 1]

\* _post_with_retries, lines 165-196: one requests.post. A 200 returns its
\* body, a retryable status or a RequestException goes on to the back-off,
\* any other status raises LLMServiceError out of the loop.
LLMPost ==
  /\ llm.pc = "post"
  /\ \E resp \in Responses :
       IF resp.kind = "network"
         THEN llm' = [llm EXCEPT !.responses = Append(@, resp), !.pc = "sleep"]
       ELSE IF resp.status = 200
         THEN llm' = [llm EXCEPT !.responses = Append(@, resp),
                                 !.result = Returned(resp.body), !.pc = "done"]
       ELSE IF Retryable(resp)
         THEN llm' = [llm EXCEPT !.responses = Append(@, resp), !.pc = "sleep"]
       ELSE llm' = [llm EXCEPT !.responses = Append(@, resp),
                               !.result = Raised("LLMServiceError"), !.pc = "done"]
  /\ UNCHANGED <<proc, mem, engineVars, disk, log, pc, loc, result, ck>>

\* _post_with_retries, lines 179-189 and 197-204: time.sleep returns, the
\* failure is kept in last_exc, and the loop goes to the next attempt if it
\* has one.
LLMSleep ==
  /\ llm.pc = "sleep"
  /\ llm' = [llm EXCEPT
               !.last_exc = IF llm.responses[Len(llm.responses)].kind = "network"
                              THEN "RequestException" ELSE "LLMServiceError",
               !.attempt = IF llm.attempt < MAX_RETRIES THEN @ + 1 ELSE @,
               !.pc = IF llm.attempt < MAX_RETRIES THEN "post" ELSE "exhausted"]
  /\ UNCHANGED <<proc, mem, engineVars, disk, log, pc, loc, result, ck>>

\* _post_with_retries, lines 206-208: every attempt has failed.
LLMRaiseAll ==
  /\ llm.pc = "exhausted"
  /\ llm' = [llm EXCEPT !.result = Raised("LLMServiceError"), !.pc = "done"]
  /\ UNCHANGED <<proc, mem, engineVars, disk, log, pc, loc, result, ck>>

NextLLM == LLMPost \/ LLMSleep \/ LLMRaiseAll

SpecLLM == InitLLM /\ [][NextLLM]_vars

\* One caller at a time; the process may stop and start again at any point,
\* and records.json may be damaged while it is down.
Next ==
  \/ Construct \/ Crash \/ DamageRecordsFile
  \/ \E t \in MainThread : AddCall(t) \/ SearchCall(t) \/ PlanCall(t)
                              \/ Body(t) \/ PlanFilter(t)

Spec == Init /\ [][Next]_vars

\* One caller at a time, adding a chunk at most per call; the process may
\* stop and start again, and index.bin may be replaced while it is down.
NextDim ==
  \/ Construct \/ Crash \/ ForeignIndexFile
  \/ \E t \in MainThread : ThreadAddCall(t) \/ ThreadSearchCall(t) \/ Body(t)

SpecDim == Init /\ [][NextDim]_vars

\* Two threads of one process sharing the store and the engine.
NextThreads ==
  \/ Construct
  \/ \E t \in Threads : ThreadAddCall(t) \/ ThreadSearchCall(t) \/ Body(t)

SpecThreads == Init /\ [][NextThreads]_vars

\* ------------------------------------------------------------- shorthands
AllIdle == \A t \in Threads : pc[t] = "idle"

\* len(_records) == _index.ntotal
Aligned == Len(records) = Len(index.rows)

\* Thread t's add_documents call, made with a non-empty chunks list, is over:
\* it has returned or raised and the caller holds the outcome.
AddOver(t) == pc[t] = "done" /\ loc[t].op = "add" /\ loc[t].chunks # <<>>

\* Both files of the snapshot parse.
SnapshotParses == diskIndex.st = "ok" /\ diskRecords.st = "ok"

\* What a fresh VectorStore built now from the two files would hold.
Fresh == NewVectorStore(diskIndex, diskRecords)

\* The store is as __init__ leaves it: no rows, no records, counter 0.
EmptyStore(idx, recs, nid) == Len(idx.rows) = 0 /\ recs = <<>> /\ nid = 0

\* Thread t's search call, made by the route, is over.
SearchOver(t) == pc[t] = "done" /\ loc[t].op = "search"

\* Thread t's plan call, made without a threshold keyword, is over.
PlanOver(t) == pc[t] = "done" /\ loc[t].op = "plan" /\ loc[t].threshold = NoThreshold

\* The positions of the search results whose score is not strictly below
\* the relevance threshold, and the rank of position i among them.
NotBelow(raw) == {i \in 1..Len(raw) : ~(raw[i].score < MIN_RELEVANCE_SCORE)}
RankIn(S, i) == Cardinality({k \in S : k <= i})

\* chunk_text is at the paragraph it handles next.
AtParagraph == ck.pc = "loop"
NextParagraph == ck.paragraphs[ck.k]

\* The step has left the chunks alone and joined the paragraph to the
\* current chunk.
MergedIn == ck'.chunks = ck.chunks /\ ck'.current = Joined(ck.current, NextParagraph)

\* The step has emitted the current chunk, if there was one, as the next chunk.
FlushedFirst ==
  ck.current # <<>>
    => /\ Len(ck'.chunks) > Len(ck.chunks)
       /\ ck'.chunks[Len(ck.chunks) + 1] = ck.current

\* s occurs in c from position o on; s occurs somewhere in c.
OccursAt(s, c, o) == o + Len(s) - 1 <= Len(c) /\ SubSeq(c, o, o + Len(s) - 1) = s
Within(s, c) == \E o \in 1..Max(Len(c), 1) : OccursAt(s, c, o)

\* Every character of paragraph p lies in one of the chunks j..m, each of
\* them a window of p.
Covered(p, chunks, j, m) ==
  /\ \A i \in j..m : Within(chunks[i], p)
  /\ \A x \in 1..Len(p) :
       \E i \in j..m, o \in 1..Len(p) :
         OccursAt(chunks[i], p, o) /\ o <= x /\ x <= o + Len(chunks[i]) - 1

\* Paragraph p is whole in chunk j, or, longer than maximum, covered by
\* windows from chunk j on.
PlacedAt(p, chunks, j, maximum) ==
  \/ Within(p, chunks[j])
  \/ Len(p) > maximum /\ \E m \in j..Len(chunks) : Covered(p, chunks, j, m)

\* ------------------------------------------------------------------ claims

\* C1: after every add_documents call with a non-empty chunks list, whatever
\* the metadatas argument and whether the call returned or raised, the
\* number of records equals the number of rows of the index.
C1_AlignedAfterAdd == \A t \in Threads : AddOver(t) => Aligned

\* C2: at every moment the two files of the snapshot, when both parse, hold
\* the same number of entries. Stated for the moments at which the running
\* process holds as many records as rows, so that a difference between the
\* files is the flush's own and not one it copied from memory.
C2_SnapshotFilesAgree ==
  (proc = "up" /\ Aligned /\ SnapshotParses)
    => Len(diskIndex.rows) = Len(diskRecords.records)

\* C3: a VectorStore constructed over a snapshot whose two files parse but
\* differ in length starts empty.
C3_MismatchLoadsEmpty ==
  [][(proc = "down" /\ proc' = "up" /\ SnapshotParses
        /\ Len(diskIndex.rows) # Len(diskRecords.records))
      => EmptyStore(index', records', next_id')]_vars

\* C4: a VectorStore constructed over an intact index.bin and a records.json
\* that is cut short or does not deserialize starts empty: a new index
\* without rows, no records, counter 0, and the failure logged.
C4_DamagedRecordsLoadEmpty ==
  [][(proc = "down" /\ proc' = "up" /\ diskIndex.st = "ok"
        /\ diskRecords.st \in {"truncated", "bad_record"})
      => (/\ index' = IndexFlatIP(EMBEDDING_DIM)
          /\ records' = <<>>
          /\ next_id' = 0
          /\ log' = "load_failed")]_vars

\* C4's case: the process has just started over an index.bin that holds
\* rows and a damaged records.json, and holds nothing.
C4_Witness ==
  /\ proc = "up" /\ AllIdle /\ log = "load_failed"
  /\ diskIndex.st = "ok" /\ Len(diskIndex.rows) > 0
  /\ diskRecords.st \in {"truncated", "bad_record"}
  /\ EmptyStore(index, records, next_id)

\* C5: once the last flush has succeeded and no call is in progress, a fresh
\* VectorStore built from the snapshot has the same rows, the same records
\* (id, text, metadata) in the same order and the same counter as the
\* running one, and search gives the same outcome for every query and top_k.
C5_RoundTrip ==
  (proc = "up" /\ AllIdle /\ log = "saved")
    => /\ Fresh.index = index
       /\ Fresh.records = records
       /\ Fresh.next_id = next_id
       /\ \A q \in Texts, k \in 1..MaxTopK :
            Search(Fresh.index, Fresh.records, q, k) = Search(index, records, q, k)

\* C5's case: two records, one of them with metadata, were added and
\* flushed, and no call is in progress.
C5_Witness ==
  /\ proc = "up" /\ AllIdle /\ log = "saved"
  /\ Len(records) >= 2 /\ Len(index.rows) >= 2
  /\ \E i \in 1..Len(records) : records[i].metadata = DocMeta
  /\ next_id >= 2

\* C6: whenever a search is about to read the rows (index_search) or the
\* records (collect), the index holds as many rows as records.
C6_NoHalfAppendSeen ==
  \A t \in Threads :
    (loc[t].op = "search" /\ pc[t] \in {"index_search", "collect"}) => Aligned

\* C7: when no add_documents call is in progress any more, the record ids
\* are pairwise distinct and row i is the embedding of record i's text.
C7_AddsExclusive ==
  (proc = "up" /\ \A t \in Threads : pc[t] \in {"idle", "done"})
    => /\ Aligned
       /\ \A i, j \in 1..Len(records) :
            i # j => records[i].chunk_id # records[j].chunk_id
       /\ \A i \in 1..Min(Len(records), Len(index.rows)) :
            index.rows[i] = Embed(records[i].text)

\* C8: in one process the model constructor returns a model at most once.
C8_ModelLoadedOnce == modelLoads <= 1

\* C9: when add_documents is over and its flush has failed, the call has
\* returned one id per chunk without raising, and the store ends with the
\* call's records and rows, aligned, the counter past the last id.
C9_FlushFailureKeepsMemory ==
  \A t \in Threads :
    (AddOver(t) /\ log = "save_failed")
      => /\ result[t].kind = "ok"
         /\ Len(result[t].val) = Len(loc[t].chunks)
         /\ Aligned
         /\ \A i \in 1..Len(result[t].val) : result[t].val[i] < next_id
         /\ Len(records) >= Len(loc[t].chunks)
         /\ \A i \in 1..Len(loc[t].chunks) :
              LET p == Len(records) - Len(loc[t].chunks) + i IN
                p >= 1 => records[p].text = loc[t].chunks[i]

\* C10: when add_documents has returned its ids, which is all it gives the
\* caller, the snapshot holds the store with the added records.
C10_ReturnMeansDurable ==
  \A t \in Threads :
    (AddOver(t) /\ result[t].kind = "ok")
      => Fresh.records = records /\ Fresh.index = index

\* C11: when add_documents with a non-empty chunks list has returned, it has
\* returned one id per chunk, and the last len(chunks) records of the store
\* are the chunks in order under those ids, record i with metadatas[i] where
\* the list has an entry i and with the empty dict where it has none.
C11_OneRecordPerChunk ==
  \A t \in Threads :
    (AddOver(t) /\ result[t].kind = "ok")
      => /\ Len(result[t].val) = Len(loc[t].chunks)
         /\ Len(records) >= Len(loc[t].chunks)
         /\ \A i \in 1..Len(loc[t].chunks) :
              LET p == Len(records) - Len(loc[t].chunks) + i
                  m == loc[t].metadatas
              IN records[p] =
                   ChunkRecord(result[t].val[i], loc[t].chunks[i],
                               IF m.given /\ i <= Len(m.list) THEN m.list[i] ELSE EmptyMeta)

\* C12: whenever no add_documents call stands between appending a record and
\* bumping the counter, every record's id is below the counter; the ids
\* always increase strictly with the position, hence are distinct; and a
\* call that has returned has returned consecutive ids that start at the
\* value the counter had when the call was made.
C12_IdsIncreaseBelowCounter ==
  /\ (\A t \in Threads : pc[t] # "bump_id")
       => \A i \in 1..Len(records) : records[i].chunk_id < next_id
  /\ \A i, j \in 1..Len(records) : i < j => records[i].chunk_id < records[j].chunk_id
  /\ \A t \in Threads :
       (AddOver(t) /\ result[t].kind = "ok")
         => \A i \in 1..Len(result[t].val) :
              result[t].val[i] = next_id - Len(result[t].val) + i - 1

\* A call on a store that already holds a record has returned the id 1, the
\* store holding the ids 0 and 1 and the snapshot being the flushed one.
C12_Witness ==
  \E t \in Threads :
    /\ AddOver(t)
    /\ result[t] = Returned(<<1>>)
    /\ Len(records) = 2
    /\ next_id = 2
    /\ diskRecords = RecordsFile(next_id, records)

\* C13: the step that calls add_documents with an empty chunks list ends the
\* call at once with the empty list as its result; it passes by the
\* embedding engine and the flush, and the index, the records, the counter,
\* the engine, both files and the persistence log are as before the call.
C13_EmptyAddChangesNothing ==
  [][\A t \in Threads :
       (pc[t] = "idle" /\ pc'[t] # "idle" /\ loc'[t].op = "add" /\ loc'[t].chunks = <<>>)
         => /\ pc'[t] = "done"
            /\ result'[t] = Returned(<<>>)
            /\ UNCHANGED <<mem, engineVars, disk, log>>]_vars

\* An add_documents call with an empty chunks list has returned on a store
\* that holds a record and has a snapshot.
C13_Witness ==
  \E t \in Threads :
    /\ pc[t] = "done"
    /\ loc[t].op = "add"
    /\ loc[t].chunks = <<>>
    /\ result[t] = Returned(<<>>)
    /\ Len(records) > 0
    /\ diskRecords.st = "ok"

\* C14: when search has ended on a store with N >= 1 records, the embedding
\* model being available, it has returned min(top_k, N) results without
\* raising, best score first, each with the text and the metadata of the
\* record at the position of the row it matched.
C14_SearchReturnsMinTopKN ==
  \A t \in Threads :
    (SearchOver(t) /\ Len(records) >= 1 /\ result[t].exc # "ModelLoadError")
      => /\ result[t].kind = "ok"
         /\ Len(result[t].val) = Min(loc[t].top_k, Len(records))
         /\ \A r \in 1..(Len(result[t].val) - 1) :
              result[t].val[r].score >= result[t].val[r + 1].score
         /\ \A r \in 1..Len(result[t].val) :
              /\ result[t].val[r].text = records[loc[t].hits[r].idx].text
              /\ result[t].val[r].metadata = records[loc[t].hits[r].idx].metadata

\* C15: when plan has returned, its chunks are the search results whose score
\* is not strictly below the relevance threshold, with their text, score and
\* metadata and in the order search gave them, and the index was asked for
\* min(top_k, ntotal) rows with the caller's top_k, which the strategy reports.
C15_PlanKeepsNotBelowThreshold ==
  \A t \in Threads :
    (PlanOver(t) /\ result[t].kind = "ok")
      => LET raw == loc[t].raw
             chunks == result[t].val.chunks
             kept == NotBelow(raw)
         IN /\ Len(chunks) = Cardinality(kept)
            /\ \A i \in kept :
                 /\ chunks[RankIn(kept, i)].text = raw[i].text
                 /\ chunks[RankIn(kept, i)].score = raw[i].score
                 /\ chunks[RankIn(kept, i)].metadata = raw[i].metadata
            /\ Len(loc[t].hits) = Min(loc[t].top_k, Len(index.rows))
            /\ Len(raw) = Len(loc[t].hits)
            /\ result[t].val.strategy.top_k = loc[t].top_k

\* plan has returned for a query whose best result scores exactly the
\* threshold and whose second result scores below it: the first is kept, the
\* second is not.
C15_Witness ==
  \E t \in Threads :
    /\ PlanOver(t)
    /\ result[t].kind = "ok"
    /\ Len(loc[t].raw) = 2
    /\ loc[t].raw[1].score = MIN_RELEVANCE_SCORE
    /\ loc[t].raw[2].score < MIN_RELEVANCE_SCORE
    /\ Len(result[t].val.chunks) = 1

\* C16: when plan has ended after being called, on an index with rows, with a
\* threshold above every score the index has for the query, it has returned
\* no chunks and a strategy that reports returned=0.
C16_CallerThresholdHonoured ==
  \A t \in Threads :
    (/\ pc[t] = "done"
     /\ loc[t].op = "plan"
     /\ loc[t].threshold # NoThreshold
     /\ Len(index.rows) >= 1
     /\ \A i \in 1..Len(index.rows) :
          InnerProduct(Embed(loc[t].query), index.rows[i]) < loc[t].threshold)
      => /\ result[t].kind = "ok"
         /\ result[t].val.chunks = <<>>
         /\ result[t].val.strategy.returned = 0

\* C17: when plan has ended, on any state of the store, any query and any
\* top_k, and not by a failure to load the embedding model, it has returned
\* a PlannerResult and raised nothing.
C17_NoQueryErrorEscapesPlan ==
  \A t \in Threads :
    (PlanOver(t) /\ result[t].exc # "ModelLoadError") => result[t].kind = "ok"

\* C18: a plan call on an index without rows goes straight to building its
\* result, asking for no engine, no embedding and no index search, and when
\* it has ended it has returned no chunks and a strategy reporting returned=0.
C18_PlanOnEmptyIndex ==
  \A t \in Threads :
    (loc[t].op = "plan" /\ loc[t].threshold = NoThreshold /\ Len(index.rows) = 0)
      => /\ pc[t] \in {"plan_filter", "done"}
         /\ loc[t].engine = 0
         /\ loc[t].hits = <<>>
         /\ pc[t] = "done"
              => /\ result[t].kind = "ok"
                 /\ result[t].val.chunks = <<>>
                 /\ result[t].val.strategy.returned = 0

\* plan has returned on an index without rows.
C18_Witness ==
  \E t \in Threads :
    /\ PlanOver(t)
    /\ Len(index.rows) = 0
    /\ result[t].kind = "ok"
    /\ result[t].val.chunks = <<>>

\* C19, as stated: the score of every chunk plan returns is the score of its
\* search result rounded to a multiple of 1/10000, and the chunks are the
\* results whose unrounded score is at or above the threshold.
C19_ChunkScoreRounded ==
  \A t \in Threads :
    (PlanOver(t) /\ result[t].kind = "ok")
      => LET raw == loc[t].raw
             chunks == result[t].val.chunks
             kept == NotBelow(raw)
         IN /\ Len(chunks) = Cardinality(kept)
            /\ \A i \in kept :
                 LET c == chunks[RankIn(kept, i)] IN
                   /\ c.score % 10 = 0
                   /\ c.score - raw[i].score \in -5..5

\* C19, amended: the score of every chunk plan returns is the unrounded
\* score of its search result; the score of its entry in source_list() is
\* that score rounded to a multiple of 1/10000; and the chunks are the
\* results whose unrounded score is at or above the threshold, so a result
\* below the threshold is left out even when its score rounds up to it.
C19_SourceScoreRounded ==
  \A t \in Threads :
    (PlanOver(t) /\ result[t].kind = "ok")
      => LET raw == loc[t].raw
             chunks == result[t].val.chunks
             sources == SourceList(chunks)
             kept == NotBelow(raw)
         IN /\ Len(chunks) = Cardinality(kept)
            /\ Len(sources) = Len(chunks)
            /\ \A i \in kept :
                 LET j == RankIn(kept, i) IN
                   /\ chunks[j].score = raw[i].score
                   /\ sources[j].score % 10 = 0
                   /\ sources[j].score - raw[i].score \in -5..5

\* plan has returned one chunk whose score is no multiple of 1/10000 and has
\* left out a result whose score is below the threshold and rounds up to it.
C19_Witness ==
  \E t \in Threads :
    /\ PlanOver(t)
    /\ result[t].kind = "ok"
    /\ \E i \in 1..Len(result[t].val.chunks) : result[t].val.chunks[i].score % 10 # 0
    /\ \E i \in 1..Len(loc[t].raw) :
         /\ loc[t].raw[i].score < MIN_RELEVANCE_SCORE
         /\ Round4(loc[t].raw[i].score) >= MIN_RELEVANCE_SCORE

\* C20: the step in which SentenceTransformer(...) raises ends the call with
\* that exception as its outcome, the call holding no vectors, hits or ids,
\* the store and both files as they were and the engine still without a
\* model; no call goes on to encode on an engine without a model; and a call
\* that finds the engine without a model tries to load it.
C20_ModelLoadFailureRaised ==
  [][\A t \in Threads :
       /\ (pc[t] = "new_model" /\ pc'[t] = "done")
            => /\ result'[t] = Raised("ModelLoadError")
               /\ loc'[t].vectors = <<>>
               /\ loc'[t].ids = <<>>
               /\ loc'[t].hits = <<>>
               /\ UNCHANGED <<mem, disk>>
               /\ engines'[loc[t].engine] = "None"
       /\ (pc[t] # "encode" /\ pc'[t] = "encode")
            => engines'[loc'[t].engine] = "model"
       /\ (pc[t] = "load_model" /\ pc'[t] # "load_model" /\ proc' = "up"
              /\ engines[loc[t].engine] = "None")
            => pc'[t] = "new_model"]_vars

\* An add_documents call has ended with the model's load failure on a store
\* that holds a record, the engine without a model.
C20_Witness ==
  \E t \in Threads :
    /\ AddOver(t)
    /\ result[t] = Raised("ModelLoadError")
    /\ engines[loc[t].engine] = "None"
    /\ Len(records) >= 1

\* C21: while the process is up, that is once the construction of the
\* VectorStore has completed, the dimension of its index is the dimension
\* the EmbeddingEngine declares.
C21_IndexDimensionIsEngines ==
  proc = "up" => index.d = EMBEDDING_DIM

\* C22: when chunk_text has returned, every chunk is at most maximum
\* characters long.
C22_ChunksWithinMaximum ==
  ck.pc = "done" => \A i \in 1..Len(ck.chunks) : Len(ck.chunks[i]) <= ck.maximum

\* C23: the step that hard-splits a paragraph longer than maximum emits
\* pieces that are the paragraph's windows starting every maximum - overlap
\* characters, each but the last exactly maximum long, each two consecutive
\* ones sharing exactly overlap characters.
C23_HardSplitWindows ==
  [][(AtParagraph /\ Len(NextParagraph) > ck.maximum)
       => LET before == Len(ck.chunks) + (IF ck.current # <<>> THEN 1 ELSE 0)
              pieces == SubSeq(ck'.chunks, before + 1, Len(ck'.chunks))
              step == ck.maximum - ck.overlap
          IN /\ Len(pieces) >= 1
             /\ \A j \in 1..Len(pieces) :
                  OccursAt(pieces[j], NextParagraph, (j - 1) * step + 1)
             /\ \A j \in 1..(Len(pieces) - 1) :
                  /\ Len(pieces[j]) = ck.maximum
                  /\ (j - 1) * step + Len(pieces[j]) - j * step = ck.overlap]_vars

\* C24, as stated: a step of chunk_text joins the paragraph to the current
\* chunk when len(current) + len(paragraph) <= target, and otherwise emits
\* the current chunk first.
C24_MergesUpToTarget ==
  [][AtParagraph
       => IF Len(ck.current) + Len(NextParagraph) <= ck.target
            THEN MergedIn
            ELSE FlushedFirst]_vars

\* C24, amended: a step of chunk_text joins the paragraph to the current
\* chunk when len(current) + len(paragraph) + 2 <= target, the separator
\* counted, and otherwise emits the current chunk, if there is one, first.
C24_MergesUpToTargetWithSeparator ==
  [][AtParagraph
       => IF Len(ck.current) + Len(NextParagraph) + 2 <= ck.target
            THEN MergedIn
            ELSE FlushedFirst /\ (ck.current # <<>> => ~MergedIn)]_vars

\* chunk_text has returned one chunk made of two paragraphs and their
\* separator, exactly target characters long.
C24_Witness ==
  /\ ck.pc = "done"
  /\ Len(ck.paragraphs) = 2
  /\ Len(ck.chunks) = 1
  /\ Len(ck.chunks[1]) = ck.target
  /\ Len(ck.chunks[1]) = Len(ck.paragraphs[1]) + Len(ck.paragraphs[2]) + 2

\* C25: the step that emits the current chunk and starts the next one with a
\* paragraph that is not hard-split leaves as the current chunk the last
\* overlap characters of the emitted chunk (all of it when it is shorter),
\* followed by the paragraph, with or without the separator between them.
C25_StartsWithOverlapTail ==
  [][(/\ AtParagraph
      /\ ck.current # <<>>
      /\ ~MergedIn
      /\ Len(NextParagraph) <= ck.maximum)
       => LET prev == ck.current
              tail == SubSeq(prev, Max(Len(prev) - ck.overlap, 0) + 1, Len(prev))
          IN ck'.current \in {tail \o NextParagraph,
                              tail \o ParagraphBreak \o NextParagraph}]_vars

\* C26: when chunk_text has returned, the paragraphs of the text can be
\* assigned to chunks, in an order that never goes back, so that each
\* paragraph is whole in its chunk or, being longer than maximum, covered
\* by windows from its chunk on.
C26_ParagraphsKeptInOrder ==
  ck.pc = "done"
    => LET ps == Paragraphs(ck.text) IN
         ps # <<>>
           => \E f \in [1..Len(ps) -> 1..Len(ck.chunks)] :
                /\ \A k \in 1..(Len(ps) - 1) : f[k] <= f[k + 1]
                /\ \A k \in 1..Len(ps) : PlacedAt(ps[k], ck.chunks, f[k], ck.maximum)

\* chunk_text has returned for a text of two paragraphs, one of them
\* hard-split, in three chunks or more.
C26_Witness ==
  /\ ck.pc = "done"
  /\ Len(ck.paragraphs) = 2
  /\ \E k \in 1..2 : Len(ck.paragraphs[k]) > ck.maximum
  /\ Len(ck.chunks) >= 3

\* C27: in every step of a running process the records before the step
\* are the first records after it, and the rows before it the first rows
\* after it: nothing is removed, moved or rewritten, and total_chunks, the
\* number of rows, never decreases.
C27_AppendOnly ==
  [][(proc = "up" /\ proc' = "up")
       => /\ Len(records) <= Len(records')
          /\ SubSeq(records', 1, Len(records)) = records
          /\ Len(index.rows) <= Len(index'.rows)
          /\ SubSeq(index'.rows, 1, Len(index.rows)) = index.rows]_vars

\* An add_documents call of one chunk has returned on a store that held a
\* record and a row before it.
C27_Witness ==
  \E t \in Threads :
    /\ AddOver(t)
    /\ result[t].kind = "ok"
    /\ Len(loc[t].chunks) = 1
    /\ Len(records) = 2
    /\ Len(index.rows) = 2

\* C28: a _post_with_retries call makes at most 3 attempts; an attempt is
\* followed by another only after a 429, a 5xx status or a network error,
\* and before the third attempt always after one; a 200 ends the call with
\* its body as the result; any other status ends it with LLMServiceError;
\* and so does the third failed attempt.
C28_RetriesOn429And5xx ==
  LET n == Len(llm.responses)
      Retry(r) == r.kind = "network" \/ r.status = 429
                    \/ (r.status >= 500 /\ r.status <= 599)
  IN /\ n <= 3
     /\ \A i \in 1..n :
          LET r == llm.responses[i] IN
            /\ i < n => Retry(r)
            /\ (Retry(r) /\ i < 3 /\ llm.pc = "done") => i < n
            /\ (r.kind = "http" /\ r.status = 200)
                 => i = n /\ llm.pc = "done" /\ llm.result = Returned(r.body)
            /\ (~Retry(r) /\ r.status # 200)
                 => i = n /\ llm.pc = "done" /\ llm.result = Raised("LLMServiceError")
     /\ (llm.pc = "done" /\ n = 3 /\ Retry(llm.responses[3]))
          => llm.result = Raised("LLMServiceError")

\* C29: every step that leaves an add_documents call at or before the
\* loading of the embedding model, or ended by the embedding call's
\* exception, has left the index, the records, the counter, both files and
\* the persistence log as they were: from the call to the exception the
\* store is never touched.
C29_EmbeddingRaiseLeavesStore ==
  [][\A t \in Threads :
       (/\ loc'[t].op = "add"
        /\ \/ pc'[t] \in {"get_instance", "new_engine", "load_model", "new_model"}
           \/ pc'[t] = "done" /\ result'[t].exc = "ModelLoadError")
         => UNCHANGED <<mem, disk, log>>]_vars

\* An add_documents call has ended with the embedding call's exception on a
\* store of one record and one row that its snapshot matches.
C29_Witness ==
  \E t \in Threads :
    /\ AddOver(t)
    /\ result[t].kind = "raised"
    /\ Len(records) = 1
    /\ Aligned
    /\ next_id = 1
    /\ Fresh.records = records

\* C30: every step of a search call leaves the index, the records, the
\* counter and both files as they were, and the outcome of a search whose
\* embedding succeeded is the one outcome that the index, the records, the
\* query and top_k determine.
C30_SearchReadOnly ==
  [][\A t \in Threads :
       (/\ proc = "up" /\ proc' = "up"
        /\ loc[t].op = "search" \/ loc'[t].op = "search")
         => /\ UNCHANGED <<mem, disk>>
            /\ (pc'[t] = "done" /\ result'[t].exc # "ModelLoadError")
                 => result'[t] = Search(index', records', loc'[t].query, loc'[t].top_k)]_vars

\* A search has returned two results on a store whose snapshot is not the
\* store's own flush.
C30_Witness ==
  \E t \in Threads :
    /\ SearchOver(t)
    /\ result[t].kind = "ok"
    /\ Len(result[t].val) = 2
    /\ diskRecords # RecordsFile(next_id, records)

====
